---- MODULE Spec2Model ----
(***************************************************************************)
(* Hyperliquid liquidation bots: the deduplicating scanner                 *)
(* (bot_final_liquidations.py, HyperliquidLiquidationsBot) and the futures *)
(* scanner (bot_railway_futures.py, HyperliquidFuturesBot), each with its  *)
(* rate-limited TelegramBot sink.                                          *)
(*                                                                         *)
(* Both scripts are single-threaded asyncio programs: code between two     *)
(* awaits that really suspend runs atomically.  urllib's urlopen is a      *)
(* blocking call, not an await, so a fetch or a Telegram request never     *)
(* yields to another task; the suspending awaits are asyncio.sleep and     *)
(* asyncio.gather.                                                         *)
(*                                                                         *)
(* Time is counted in ticks of half a second (the smallest sleep of the    *)
(* code).  The code only ever reads the clock as a difference              *)
(* time.time() - <stored time>, so the model keeps those differences,      *)
(* saturated at the largest value they are compared with.                  *)
(* Counters that are only written to the log (messages_sent, scan_count,   *)
(* liquidations_count, total_liquidations) are left out.                   *)
(***************************************************************************)
EXTENDS Integers, Sequences, FiniteSets, TLC

VARIABLES
    script,             \* which of the scripts this process runs
    pc,                 \* position of the monitor coroutine
    running,            \* self.running
    coins,              \* the symbol list of the current scan cycle
    i,                  \* start index of the current batch (0-based)
    k,                  \* number of tasks of the batch that have run
    results,            \* results of gather: per task, its list of liquidations
    n,                  \* liquidations of the flattened results already handled
    processed_hashes,   \* self.processed_hashes
    time_since_last,    \* time.time() - telegram_bot.last_message_time
    delay,              \* asyncio.sleep(delay) the coroutine is suspended in
    all_tokens,         \* futures: self.all_tokens
    update_due,         \* futures: time.time() - last_token_update > 3600
    tasks,              \* futures: the started tasks of the current batch
    environ,            \* os.environ: how the two Telegram settings are given
    exit_status,        \* the status the process has exited with
    call,               \* a single call of a function, and what it returned
    \* ---- observation only (history of the run) ----
    alerted,            \* per hash: calls of send_liquidation_alert
    attempts,           \* per hash: outbound requests made for its alert
    failed,             \* hashes whose sink send failed
    produced,           \* liquidations classified in the current batch
    alert_log,          \* liquidations of this batch given to an alert
    fetch_failed,       \* a fetch of the current batch raised
    skipped,            \* hashes the seen set made the current batch skip
    trade_error,        \* the task that ran last skipped a trade that raised
    since_request,      \* time since the previous outbound request completed
    request_gap,        \* since_request when the latest request was issued
    meta_log,           \* futures: answers to the meta requests of this cycle
    fetched,            \* symbols whose trades were requested in this cycle
    check_count,        \* rotating scanner: check_count of monitor_liquidations
    last_scan           \* rotating scanner: per list position, the cycle that
                        \* requested its trades last (0: none yet)

\* the state of HyperliquidLiquidationsBot alone, and its history
final_vars == <<results, n, processed_hashes, attempts, failed, produced,
                alert_log, fetch_failed, skipped, trade_error>>

\* the state of HyperliquidFuturesBot alone, and its history
futures_vars == <<all_tokens, update_due, tasks, meta_log>>

\* the process around the bot, and the call of the function under study
other_vars == <<environ, exit_status, call>>

\* the state of the rotating scanner of bot_railway.py alone, and its history
railway_vars == <<check_count, last_scan>>

vars == <<script, pc, running, coins, i, k, time_since_last, delay, alerted,
          since_request, request_gap, final_vars, futures_vars, other_vars,
          fetched, railway_vars>>

----------------------------------------------------------------------------
(* Bounds of the model *)

\* longest recentTrades response
MaxTrades == 2
\* largest notional of a trade given to a single call
MaxNotional == 2000000
\* a request to the sink takes 0..MaxNetDelay ticks
MaxNetDelay == 1
\* the per-hash counters saturate here
MaxCount == 2

(* Program constants, in ticks of 0.5 s *)
min_interval == 2
min_interval_futures == 4
ALERT_PAUSE == 1
BATCH_PAUSE == 4
SCAN_PAUSE == 60
ERROR_PAUSE == 120
batch_size == 10
COINS_LIMIT == 50
min_liquidation_value == 50000
OVERRIDE_VALUE == 100000
FIVE_MINUTES == 5
min_interval_railway == 6
railway_batch_size == 6
COIN_PAUSE == 2
RAILWAY_SCAN_PAUSE == 90

NoTime == -1

Min(a, b) == IF a < b THEN a ELSE b

\* TelegramBot.min_interval of the script that runs
MinInterval ==
    IF script = "futures" THEN min_interval_futures
    ELSE IF script = "railway" THEN min_interval_railway
    ELSE min_interval

\* a clock difference after d more ticks, saturated at the interval it is
\* compared with
Elapse(age, d) == IF age = NoTime THEN NoTime ELSE Min(age + d, MinInterval)

----------------------------------------------------------------------------
(* Inputs: what the upstream API and the sink may answer *)

FALLBACK_COINS == <<"BTC", "ETH", "SOL", "AVAX", "DOGE">>

\* the fixed list of the rotating scanner
coins_to_check ==
    <<"BTC", "ETH", "SOL", "AVAX", "MATIC", "DOT", "LINK", "UNI",
      "ASTER", "ADA", "XRP", "DOGE", "SHIB", "LTC", "BCH", "ETC",
      "AAVE", "COMP", "MKR", "SNX", "CRV", "SUSHI", "YFI", "1INCH",
      "ATOM", "NEAR", "FTM", "ALGO", "EGLD", "FLOW", "ICP", "TEZOS",
      "AXS", "SAND", "MANA", "ENJ", "GALA", "IMX", "THETA", "CHZ",
      "FIL", "VET", "TRX", "EOS", "XLM", "HBAR", "IOTA", "NEO",
      "PEPE", "FLOKI", "BONK", "WIF", "BOME">>

\* universes the meta request may return (names of result['universe'])
Universes ==
    { <<>>,
      <<"BTC", "DOGE">>,
      <<"BTC", "ETH", "SOL", "AVAX", "DOGE", "XRP", "ADA", "LINK", "DOT",
        "MATIC", "UNI">> }

\* an answer of the meta request: the request raised ("error"), the result
\* has no 'universe' ("no_universe"), or it lists the names of universe
MetaAnswers ==
    { [status |-> st, universe |-> <<>>] : st \in {"error", "no_universe"} }
    \cup { [status |-> "ok", universe |-> u] : u \in Universes }

Hashes == {"0xa", "0xb", "0xc"}

\* a side that is not a string (JSON null)
NoSide == "null"

\* a trade record: time is its age in minutes when analysed; bad marks a
\* record whose "sz" or "px" makes float() raise
Trade(h, age, sz, px, side, users, bad) ==
    [hash |-> h, time |-> age, sz |-> sz, px |-> px, side |-> side,
     users |-> users, bad |-> bad]

TradePool ==
    { Trade("0xa", 0, 3, 60000, "A", 0, FALSE),      \* 180K: always alerted
      Trade("0xb", 5, 1, 60000, "B", 2, FALSE),      \* 60K, two users
      Trade("0xb", 1, 1, 60000, "B", 1, FALSE),      \* 60K, below every tier
      Trade("0xa", 6, 3, 60000, "A", 0, FALSE),      \* older than 5 minutes
      Trade("0xa", 0, 3, 60000, "A", 0, TRUE),       \* "sz" is no number
      Trade("0xb", 0, 2, 60000, NoSide, 0, FALSE) }  \* 120K, "side": null

TradeLists == UNION { [1..m -> TradePool] : m \in 0..MaxTrades }

\* the symbols for which the exchange reports trades in the runs explored;
\* for the others a request raises or returns an empty list
TradedCoins == {"BTC", "DOGE"}

\* an answer of a recentTrades request: the request raised, or a list
TradeAnswers(coin) ==
    { [status |-> "error", trades |-> <<>>] }
    \cup { [status |-> "ok", trades |-> ts] :
             ts \in IF coin \in TradedCoins THEN TradeLists ELSE {<<>>} }

SinkAnswers == {"ok", "not_ok", "error"}

----------------------------------------------------------------------------
(* analyze_coin_liquidations: the classification of the trades of a symbol *)

\* Critere 2: the size a trade of the symbol must reach
SizeThreshold(coin) ==
    IF coin = "BTC" THEN 2
    ELSE IF coin = "ETH" THEN 20
    ELSE IF coin \in {"SOL", "AVAX", "MATIC", "DOT", "LINK"} THEN 1000
    ELSE IF coin \in {"DOGE", "XRP", "ADA"} THEN 50000
    ELSE 5000

value_usd(trade) == trade.sz * trade.px

\* (mutant) the number of users is not looked at
is_liquidation_by_size(coin, trade) ==
    \/ trade.sz >= SizeThreshold(coin)
    \/ value_usd(trade) >= OVERRIDE_VALUE

is_liquidation(coin, trade) ==
    \/ trade.sz >= SizeThreshold(coin)
    \/ trade.users >= 2
    \/ value_usd(trade) >= OVERRIDE_VALUE

\* (mutant) the membership test left out
NeverProcessed(hash, seen) == FALSE

\* "if trade_hash in self.processed_hashes: continue"
AlreadyProcessed(hash, seen) == hash \in seen

\* (mutant) the hash is not recorded at classification
MarkNothing(seen, hash) == seen

\* "self.processed_hashes.add(trade_hash)"
MarkProcessed(seen, hash) == seen \cup {hash}

\* does float() raise for this trade?  The two tests before it pass
Raises(trade, seen) ==
    /\ ~AlreadyProcessed(trade.hash, seen)
    /\ ~(trade.time > FIVE_MINUTES)
    /\ trade.bad

\* (mutant) Critere 1 left out
ClassifiedWithoutFloor(coin, trade, seen) ==
    /\ ~AlreadyProcessed(trade.hash, seen)
    /\ ~(trade.time > FIVE_MINUTES)
    /\ ~trade.bad
    /\ is_liquidation(coin, trade)

\* does the loop body reach "liquidations.append" for this trade?
Classified(coin, trade, seen) ==
    /\ ~AlreadyProcessed(trade.hash, seen)
    /\ ~(trade.time > FIVE_MINUTES)
    /\ ~trade.bad
    /\ ~(value_usd(trade) < min_liquidation_value)
    /\ is_liquidation(coin, trade)

Liquidation(coin, trade) ==
    [coin |-> coin, sz |-> trade.sz, px |-> trade.px, side |-> trade.side,
     value_usd |-> value_usd(trade), time |-> trade.time, hash |-> trade.hash,
     users |-> trade.users]

\* (mutant) the new liquidation is put in front
prepend(liquidations, liquidation) == <<liquidation>> \o liquidations

\* "liquidations.append(liquidation)"
append(liquidations, liquidation) == Append(liquidations, liquidation)

\* (mutant) the exception ends the loop over the trades
AbortOnTradeException(trades, j) == Len(trades) + 1

\* "except Exception as e: continue" of the loop over the trades: the
\* index of the trade the loop goes on with
OnTradeException(trades, j) == j + 1

\* the "for trade in trades" loop from trade j on: the liquidations appended,
\* the seen set it leaves, and whether the inner handler skipped a trade
RECURSIVE AnalyzeFrom(_, _, _, _, _, _)
AnalyzeFrom(coin, trades, j, liquidations, seen, raised) ==
    IF j > Len(trades)
    THEN [liquidations |-> liquidations, seen |-> seen, raised |-> raised]
    ELSE IF Classified(coin, trades[j], seen)
         THEN AnalyzeFrom(coin, trades, j + 1,
                          append(liquidations, Liquidation(coin, trades[j])),
                          MarkProcessed(seen, trades[j].hash), raised)
         ELSE IF Raises(trades[j], seen)
         THEN AnalyzeFrom(coin, trades, OnTradeException(trades, j),
                          liquidations, seen, TRUE)
         ELSE AnalyzeFrom(coin, trades, j + 1, liquidations, seen, raised)

\* the whole coroutine on one answer of the recentTrades request
analyze_coin_liquidations(coin, answer, seen) ==
    IF answer.status = "error"
    THEN [liquidations |-> <<>>, seen |-> seen, raised |-> FALSE]
    ELSE AnalyzeFrom(coin, answer.trades, 1, <<>>, seen, FALSE)

\* (mutant) each task adds to a copy of the set
OwnSet(before, after) == before

\* self.processed_hashes is one set: what a task has added to it is there
\* for the tasks that run after it
SharedSet(before, after) == after

\* the hashes of an answer that were in the seen set before the task ran
Repeated(answer, seen) ==
    {answer.trades[j].hash : j \in 1..Len(answer.trades)} \cap seen

\* (mutant) a task that raised takes the results of the batch with it
GatheredOrAborted(res, answer, liquidations) ==
    IF answer.status = "error" THEN <<>> ELSE Append(res, liquidations)

\* what gather leaves in results for a task, after the tasks before it
Gathered(res, answer, liquidations) ==
    Append(res, IF answer.status = "error" THEN <<>> ELSE liquidations)

\* the liquidations of results in the order of the two nested for loops
RECURSIVE Flat(_)
Flat(res) == IF res = <<>> THEN <<>> ELSE Head(res) \o Flat(Tail(res))

\* (mutant) the slice stops one symbol early
BatchShort(cs, start) ==
    SubSeq(cs, start + 1, Min(start + batch_size - 1, Len(cs)))

\* coins[i:i+batch_size]
Batch(cs, start) ==
    SubSeq(cs, start + 1, Min(start + batch_size, Len(cs)))

\* coins[:50]
Limit(cs) == SubSeq(cs, 1, Min(COINS_LIMIT, Len(cs)))

\* get_all_coins on one answer of the meta request
get_all_coins(answer) ==
    IF answer.status = "ok" THEN Limit(answer.universe) ELSE FALLBACK_COINS

Bump(f, h) == [f EXCEPT ![h] = Min(@ + 1, MaxCount)]

----------------------------------------------------------------------------
(* TelegramBot.send_message *)

\* the request part of send_message, issued after waiting `waited` ticks, for
\* the alert of hash h (or a message that is not tied to a hash): the sink
\* answers, the blocking request takes d ticks, and only an ok answer sets
\* last_message_time
Request(h, waited) ==
    \E answer \in SinkAnswers, d \in 0..MaxNetDelay :
        /\ request_gap' = Elapse(since_request, waited)
        /\ since_request' = 0
        /\ time_since_last' =
              IF answer = "ok" THEN 0
              ELSE Elapse(Elapse(time_since_last, waited), d)
        /\ attempts' = IF h \in Hashes THEN Bump(attempts, h) ELSE attempts
        /\ failed' = IF h \in Hashes /\ answer # "ok"
                     THEN failed \cup {h} ELSE failed

\* time passing for d ticks with no request made
Pass(d) ==
    /\ time_since_last' = Elapse(time_since_last, d)
    /\ since_request' = Elapse(since_request, d)
    /\ UNCHANGED <<request_gap, attempts, failed>>

----------------------------------------------------------------------------
(* HyperliquidLiquidationsBot *)

\* where the monitor coroutine is suspended in an await
Suspended ==
    {"gather", "rate_wait", "alert_pause", "batch_pause", "scan_pause",
     "error_pause"}

\* (mutant) the exception leaves the loop
ExceptionEndsLoop == "returned"

\* "except Exception" of the scan loop: log, then sleep(60)
OnScanException == "error_pause"

\* how a setting reaches the process: its environment variable is not set,
\* is set to the empty string, or is set to a value
Settings == {"unset", "empty", "set"}

Environs == [token : Settings, channel : Settings]

\* both settings given
Provided == [token |-> "set", channel |-> "set"]

\* "os.getenv(name, '<a literal>')" of the class attributes of Config
getenv(setting) == IF setting = "unset" THEN "default" ELSE setting

\* (mutant) nothing is required
AlwaysValid(env) == TRUE

\* Config.validate() returns True; it raises when an attribute is falsy
validate(env) ==
    /\ getenv(env.token) # "empty"
    /\ getenv(env.channel) # "empty"

\* no call of a function is under study
NoCall == [op |-> "none"]

Boot ==
    /\ pc = "main"
    /\ exit_status = <<>>
    /\ running = FALSE
    /\ coins = <<>>
    /\ i = 0
    /\ k = 0
    /\ results = <<>>
    /\ n = 0
    /\ processed_hashes = {}
    /\ time_since_last = MinInterval
    /\ delay = 0
    /\ alerted = [h \in Hashes |-> 0]
    /\ attempts = [h \in Hashes |-> 0]
    /\ failed = {}
    /\ produced = <<>>
    /\ alert_log = <<>>
    /\ fetch_failed = FALSE
    /\ skipped = {}
    /\ trade_error = FALSE
    /\ since_request = NoTime
    /\ request_gap = NoTime
    /\ all_tokens = {}
    /\ update_due = TRUE
    /\ tasks = <<>>
    /\ meta_log = <<>>
    /\ fetched = <<>>
    /\ check_count = 0
    /\ last_scan = [j \in 1..Len(coins_to_check) |-> 0]

\* main() up to "await bot.start()": a configuration that does not validate
\* makes main return False, and the process exits with status 1
Main ==
    /\ script = "final"
    /\ pc = "main"
    /\ IF validate(environ)
       THEN pc' = "start" /\ UNCHANGED exit_status
       ELSE pc' = "exited" /\ exit_status' = <<1>>
    /\ UNCHANGED <<fetched, railway_vars>>
    /\ UNCHANGED <<script, running, coins, i, k, time_since_last, delay,
                   alerted, since_request, request_gap, final_vars,
                   futures_vars, environ, call>>

\* the monitor loop has returned: start() returns, main returns True and
\* the process exits with status 0
Return ==
    /\ script = "final"
    /\ pc = "returned"
    /\ pc' = "exited"
    /\ exit_status' = <<0>>
    /\ UNCHANGED <<fetched, railway_vars>>
    /\ UNCHANGED <<script, running, coins, i, k, time_since_last, delay,
                   alerted, since_request, request_gap, final_vars,
                   futures_vars, environ, call>>

\* start(): the startup message, then running = True and the monitor loop
Start ==
    /\ script = "final"
    /\ pc = "start"
    /\ Request("startup", 0)
    /\ running' = TRUE
    /\ pc' = "while"
    /\ UNCHANGED <<futures_vars, other_vars>>
    /\ UNCHANGED <<fetched, railway_vars>>
    /\ UNCHANGED <<script, coins, i, k, results, n, processed_hashes, delay,
                   alerted, produced, alert_log, fetch_failed,
                   skipped, trade_error>>

\* (mutant) "while True"
LoopForever(flag) == TRUE

\* the condition of "while self.running"
LoopCondition(flag) == flag

\* "while self.running"
While ==
    /\ script = "final"
    /\ pc = "while"
    /\ pc' = IF LoopCondition(running) THEN "scan" ELSE "returned"
    /\ UNCHANGED <<futures_vars, other_vars>>
    /\ UNCHANGED <<fetched, railway_vars>>
    /\ UNCHANGED <<script, running, coins, i, k, results, n, processed_hashes,
                   time_since_last, delay, alerted, attempts, failed, produced,
                   alert_log, fetch_failed, skipped, trade_error, since_request,
                   request_gap>>

\* urlopen blocks the whole event loop while a meta or recentTrades request
\* is under way: a tick passes before the answer is there (any number of
\* times)
Blocked ==
    /\ script = "final"
    /\ \/ pc = "scan"
       \/ pc = "gather" /\ k < Len(Batch(coins, i))
    /\ Pass(1)
    /\ UNCHANGED <<futures_vars, other_vars>>
    /\ UNCHANGED <<fetched, railway_vars>>
    /\ UNCHANGED <<script, pc, running, coins, i, k, results, n,
                   processed_hashes, delay, alerted, produced, alert_log,
                   fetch_failed, skipped, trade_error>>

\* "coins = await self.get_all_coins()"
Scan ==
    /\ script = "final"
    /\ pc = "scan"
    /\ \E answer \in MetaAnswers : coins' = get_all_coins(answer)
    /\ i' = 0
    /\ pc' = "for_batch"
    /\ UNCHANGED <<futures_vars, other_vars>>
    /\ fetched' = <<>>
    /\ UNCHANGED railway_vars
    /\ UNCHANGED <<script, running, k, results, n, processed_hashes,
                   time_since_last, delay, alerted, attempts, failed, produced,
                   alert_log, fetch_failed, skipped, trade_error, since_request,
                   request_gap>>

\* an exception nothing below the scan loop catches.  Every call of the try
\* body catches its own exceptions and the statements between them cannot
\* raise on any answer, so this stands for an error of the runtime; it is
\* taken where the cycle begins.
UnexpectedException ==
    /\ script = "final"
    /\ pc = "scan"
    /\ pc' = OnScanException
    /\ delay' = ERROR_PAUSE
    /\ UNCHANGED <<futures_vars, other_vars>>
    /\ UNCHANGED <<fetched, railway_vars>>
    /\ UNCHANGED <<script, running, coins, i, k, results, n, processed_hashes,
                   time_since_last, alerted, attempts, failed, produced,
                   alert_log, fetch_failed, skipped, trade_error, since_request,
                   request_gap>>

\* "for i in range(0, len(coins), batch_size)": the tasks of the next batch
\* are created, or the cycle ends with sleep(30)
ForBatch ==
    /\ script = "final"
    /\ pc = "for_batch"
    /\ IF i < Len(coins)
       THEN /\ pc' = "gather"
            /\ k' = 0
            /\ results' = <<>>
            /\ n' = 0
            /\ produced' = <<>>
            /\ alert_log' = <<>>
            /\ fetch_failed' = FALSE
            /\ skipped' = {}
            /\ trade_error' = FALSE
            /\ UNCHANGED delay
       ELSE /\ pc' = "scan_pause"
            /\ delay' = SCAN_PAUSE
            /\ UNCHANGED <<k, results, n, produced, alert_log, fetch_failed,
                           skipped, trade_error>>
    /\ UNCHANGED <<futures_vars, other_vars>>
    /\ UNCHANGED <<fetched, railway_vars>>
    /\ UNCHANGED <<script, running, coins, i, processed_hashes,
                   time_since_last, alerted, attempts, failed, since_request,
                   request_gap>>

\* one task of the batch runs, from its request to its return: it has no
\* suspending await.  The event loop runs the tasks in the order gather
\* created them.
AnalyzeCoin ==
    /\ script = "final"
    /\ pc = "gather"
    /\ k < Len(Batch(coins, i))
    /\ \E answer \in TradeAnswers(Batch(coins, i)[k + 1]) :
          LET coin == Batch(coins, i)[k + 1]
              r == analyze_coin_liquidations(coin, answer, processed_hashes)
          IN  /\ results' = Gathered(results, answer, r.liquidations)
              /\ processed_hashes' = SharedSet(processed_hashes, r.seen)
              /\ produced' = produced \o r.liquidations
              /\ fetch_failed' = (fetch_failed \/ answer.status = "error")
              /\ skipped' = skipped \cup Repeated(answer, processed_hashes)
              /\ trade_error' = r.raised
    /\ k' = k + 1
    /\ UNCHANGED <<futures_vars, other_vars>>
    /\ fetched' = Append(fetched, Batch(coins, i)[k + 1])
    /\ UNCHANGED railway_vars
    /\ UNCHANGED <<script, pc, running, coins, i, n, time_since_last, delay,
                   alerted, attempts, failed, alert_log, since_request,
                   request_gap>>

\* gather returns once every task of the batch has run
GatherDone ==
    /\ script = "final"
    /\ pc = "gather"
    /\ k = Len(Batch(coins, i))
    /\ pc' = "for_liquidation"
    /\ skipped' = {}
    /\ trade_error' = FALSE
    /\ UNCHANGED <<futures_vars, other_vars>>
    /\ UNCHANGED <<fetched, railway_vars>>
    /\ UNCHANGED <<script, running, coins, i, k, results, n, processed_hashes,
                   time_since_last, delay, alerted, attempts, failed, produced,
                   alert_log, fetch_failed, since_request, request_gap>>

\* send_liquidation_alert(liquidation) up to the first await that suspends:
\* side.lower() raises on a side that is no string (caught, nothing sent);
\* otherwise send_message either sleeps wait_time or makes the request
SendLiquidationAlert ==
    /\ script = "final"
    /\ pc = "for_liquidation"
    /\ n < Len(Flat(results))
    /\ LET liquidation == Flat(results)[n + 1]
       IN  /\ alerted' = Bump(alerted, liquidation.hash)
           /\ alert_log' = Append(alert_log, liquidation)
           /\ IF liquidation.side = NoSide
              THEN /\ pc' = "alert_pause"
                   /\ delay' = ALERT_PAUSE
                   /\ UNCHANGED <<time_since_last, attempts, failed,
                                  since_request, request_gap>>
              ELSE IF time_since_last < min_interval
              THEN /\ pc' = "rate_wait"
                   /\ delay' = min_interval - time_since_last
                   /\ UNCHANGED <<time_since_last, attempts, failed,
                                  since_request, request_gap>>
              ELSE /\ Request(liquidation.hash, 0)
                   /\ pc' = "alert_pause"
                   /\ delay' = ALERT_PAUSE
    /\ UNCHANGED <<futures_vars, other_vars>>
    /\ UNCHANGED <<fetched, railway_vars>>
    /\ UNCHANGED <<script, running, coins, i, k, results, n, processed_hashes,
                   produced, fetch_failed, skipped, trade_error>>

\* "await asyncio.sleep(wait_time)" of send_message is over: the request
RateWait ==
    /\ script = "final"
    /\ pc = "rate_wait"
    /\ Request(Flat(results)[n + 1].hash, delay)
    /\ pc' = "alert_pause"
    /\ delay' = ALERT_PAUSE
    /\ UNCHANGED <<futures_vars, other_vars>>
    /\ UNCHANGED <<fetched, railway_vars>>
    /\ UNCHANGED <<script, running, coins, i, k, results, n, processed_hashes,
                   alerted, produced, alert_log, fetch_failed,
                   skipped, trade_error>>

\* (mutant) no pause between alerts
NoSleep(d) == 0

\* the time "await asyncio.sleep(0.5)  # Pause entre alertes" takes
AlertSleep(d) == d

\* "await asyncio.sleep(0.5)" is over: the next liquidation
AlertPause ==
    /\ script = "final"
    /\ pc = "alert_pause"
    /\ Pass(AlertSleep(delay))
    /\ n' = n + 1
    /\ pc' = "for_liquidation"
    /\ delay' = 0
    /\ UNCHANGED <<futures_vars, other_vars>>
    /\ UNCHANGED <<fetched, railway_vars>>
    /\ UNCHANGED <<script, running, coins, i, k, results, processed_hashes,
                   alerted, produced, alert_log, fetch_failed,
                   skipped, trade_error>>

\* (mutant) the loops over the results are left at once
LoopsLeft(handled, res) == TRUE

\* the two loops "for result in results" and "for liquidation in result"
\* have gone through every liquidation
LoopsOver(handled, res) == handled = Len(Flat(res))

\* the results of the batch are done with: "await asyncio.sleep(2)"
ResultsDone ==
    /\ script = "final"
    /\ pc = "for_liquidation"
    /\ LoopsOver(n, results)
    /\ pc' = "batch_pause"
    /\ delay' = BATCH_PAUSE
    /\ UNCHANGED <<futures_vars, other_vars>>
    /\ UNCHANGED <<fetched, railway_vars>>
    /\ UNCHANGED <<script, running, coins, i, k, results, n, processed_hashes,
                   time_since_last, alerted, attempts, failed, produced,
                   alert_log, fetch_failed, skipped, trade_error, since_request,
                   request_gap>>

\* the pause between batches is over: the next value of i
BatchPause ==
    /\ script = "final"
    /\ pc = "batch_pause"
    /\ Pass(delay)
    /\ i' = i + batch_size
    /\ pc' = "for_batch"
    /\ delay' = 0
    /\ UNCHANGED <<futures_vars, other_vars>>
    /\ UNCHANGED <<fetched, railway_vars>>
    /\ UNCHANGED <<script, running, coins, k, results, n, processed_hashes,
                   alerted, produced, alert_log, fetch_failed,
                   skipped, trade_error>>

\* "await asyncio.sleep(30)" or, in the handler, "await asyncio.sleep(60)"
\* is over: back to the loop condition
CyclePause ==
    /\ script = "final"
    /\ pc \in {"scan_pause", "error_pause"}
    /\ Pass(delay)
    /\ pc' = "while"
    /\ delay' = 0
    /\ UNCHANGED <<futures_vars, other_vars>>
    /\ UNCHANGED <<fetched, railway_vars>>
    /\ UNCHANGED <<script, running, coins, i, k, results, n, processed_hashes,
                   alerted, produced, alert_log, fetch_failed,
                   skipped, trade_error>>

\* stop(), called by another task or a signal handler: it runs while the
\* monitor coroutine is suspended
Stop ==
    /\ script = "final"
    /\ pc \in Suspended
    /\ running
    /\ running' = FALSE
    /\ UNCHANGED <<futures_vars, other_vars>>
    /\ UNCHANGED <<fetched, railway_vars>>
    /\ UNCHANGED <<script, pc, coins, i, k, results, n, processed_hashes,
                   time_since_last, delay, alerted, attempts, failed, produced,
                   alert_log, fetch_failed, skipped, trade_error, since_request,
                   request_gap>>

monitor_liquidations ==
    \/ While
    \/ Blocked
    \/ Scan
    \/ UnexpectedException
    \/ ForBatch
    \/ AnalyzeCoin
    \/ GatherDone
    \/ SendLiquidationAlert
    \/ RateWait
    \/ AlertPause
    \/ ResultsDone
    \/ BatchPause
    \/ CyclePause

Init == script = "final" /\ environ \in Environs /\ call = NoCall /\ Boot

Next == Main \/ Start \/ monitor_liquidations \/ Stop \/ Return

Spec == Init /\ [][Next]_vars

----------------------------------------------------------------------------
(* The same script with Ctrl-C, and with the progress of the event loop    *)

\* the places of start() and monitor_liquidations
InLoop ==
    {"while", "scan", "for_batch", "gather", "for_liquidation", "rate_wait",
     "alert_pause", "batch_pause", "scan_pause", "error_pause"}

\* the places where the main task itself is inside a blocking urlopen:
\* get_all_coins and send_message are awaited directly, the analyses run
\* in the tasks of gather
InMainTask == {"scan", "for_liquidation"}

\* what the process returns when KeyboardInterrupt is not caught
SIGINT_STATUS == 130

\* SIGINT. Raised inside the main task (interpreters where asyncio.run has
\* no handler of its own), KeyboardInterrupt passes every "except Exception"
\* and is caught by main: bot.stop(), return True, sys.exit(0). Raised in
\* another task or in the event loop, or turned into a cancellation of the
\* main task, it reaches no handler of the script: the loop is abandoned
\* with running as it was
Interrupt ==
    /\ script = "final"
    /\ pc \in InLoop
    /\ pc' = "exited"
    /\ \/ /\ pc \in InMainTask
          /\ running' = FALSE
          /\ exit_status' = <<0>>
       \/ /\ exit_status' = <<SIGINT_STATUS>>
          /\ UNCHANGED running
    /\ UNCHANGED <<fetched, railway_vars>>
    /\ UNCHANGED <<script, coins, i, k, time_since_last, delay, alerted,
                   since_request, request_gap, final_vars, futures_vars,
                   environ, call>>

\* the steps the event loop takes by itself: every sleep ends, and urlopen
\* has a timeout, so that a request ends with an answer or an exception
Progress ==
    \/ Main
    \/ Start
    \/ While
    \/ Scan
    \/ ForBatch
    \/ AnalyzeCoin
    \/ GatherDone
    \/ SendLiquidationAlert
    \/ RateWait
    \/ AlertPause
    \/ ResultsDone
    \/ BatchPause
    \/ CyclePause
    \/ Return

InitStop == script = "final" /\ environ = Provided /\ call = NoCall /\ Boot

NextStop == Next \/ Interrupt

SpecStop == InitStop /\ [][NextStop]_vars /\ WF_vars(Progress)

----------------------------------------------------------------------------
(* HyperliquidFuturesBot: catalog and classification *)

TEN_MINUTES == 10
MAJOR_VALUE == 10000
OTHER_VALUE == 5000

\* the variables only HyperliquidLiquidationsBot uses
final_only == <<results, n, processed_hashes, produced, alert_log,
                fetch_failed, skipped, trade_error>>

\* get_all_tradable_assets on one answer of the meta request: the names, or
\* [] when the result has no 'universe' or the request raised
get_all_tradable_assets(answer) ==
    IF answer.status = "ok" THEN answer.universe ELSE <<>>

Names(tokens) == {tokens[j] : j \in 1..Len(tokens)}

\* (mutant) the cache is replaced by what was fetched
ReplaceTokens(all, new) == new

\* "self.all_tokens.update(new_tokens)"
UpdateTokens(all, new) == all \cup new

\* every name an answer can hold, in one fixed order
TokenOrder ==
    <<"BTC", "ETH", "SOL", "AVAX", "DOGE", "XRP", "ADA", "LINK", "DOT",
      "MATIC", "UNI">>

Reverse(s) == [j \in 1..Len(s) |-> s[Len(s) + 1 - j]]

\* "list(self.all_tokens)": the iteration order of a set of strings is not
\* fixed by the program; two orders stand for it
ListOrders(tokens) ==
    LET listed == SelectSeq(TokenOrder, LAMBDA t : t \in tokens)
    IN  {listed, Reverse(listed)}

\* the trades the exchange may report for a token: a hash names one trade
\* of one token
FuturesTradePool(token) ==
    IF token = "BTC"
    THEN { Trade("0xa", 0, 1, 60000, "A", 0, FALSE),       \* 60K
           Trade("0xc", 9, 2, 60000, "B", 0, FALSE),       \* 120K
           Trade("0xc", 11, 2, 60000, "B", 0, FALSE) }     \* too old
    ELSE IF token = "DOGE"
    THEN { Trade("0xb", 0, 60000, 1, "B", 0, FALSE),       \* 60K
           Trade("0xb", 0, 40000, 1, "B", 0, FALSE),       \* 40K: too small
           Trade("0xb", 0, 60000, 1, NoSide, 0, FALSE),    \* "side": null
           Trade("0xb", 0, 60000, 1, "B", 0, TRUE) }       \* "px" no number
    ELSE {}

Distinct(ts) ==
    \A a, b \in 1..Len(ts) : a # b => ts[a].hash # ts[b].hash

FuturesTradeLists(token) ==
    { ts \in UNION { [1..m -> FuturesTradePool(token)] : m \in 0..MaxTrades } :
        Distinct(ts) }

FuturesAnswers(token) ==
    { [status |-> "error", trades |-> <<>>] }
    \cup { [status |-> "ok", trades |-> ts] : ts \in FuturesTradeLists(token) }

\* "sz > 0.5 and value_usd > 10000" for BTC and ETH, "value_usd > 5000" for
\* the other tokens
futures_is_liquidation(token, trade) ==
    IF token \in {"BTC", "ETH"}
    THEN 2 * trade.sz > 1 /\ value_usd(trade) > MAJOR_VALUE
    ELSE value_usd(trade) > OTHER_VALUE

\* does the loop body reach "liquidations.append" for this trade?
FuturesClassified(token, trade) ==
    /\ ~(trade.time > TEN_MINUTES)
    /\ ~trade.bad
    /\ futures_is_liquidation(token, trade)
    /\ value_usd(trade) >= min_liquidation_value

\* the dict of a liquidation; it has no hash, which is kept here for the
\* history only
FuturesLiquidation(token, trade) ==
    [coin |-> token, sz |-> trade.sz, px |-> trade.px, side |-> trade.side,
     time |-> trade.time, value_usd |-> value_usd(trade),
     hash |-> trade.hash]

get_futures_liquidations(token, answer) ==
    IF answer.status = "error" THEN <<>>
    ELSE LET kept == SelectSeq(answer.trades,
                               LAMBDA t : FuturesClassified(token, t))
         IN  [j \in 1..Len(kept) |-> FuturesLiquidation(token, kept[j])]

\* a task of process_token_liquidations: the liquidations it has not done
\* with (the first is the one being sent), and the sleep it is suspended in
Task(token, queue, state, timer) ==
    [token |-> token, queue |-> queue, state |-> state, timer |-> timer]

SetTask(j, t) ==
    IF j > Len(tasks) THEN Append(tasks, t) ELSE [tasks EXCEPT ![j] = t]

\* the sleeping tasks after d more ticks
Later(ts, d) ==
    [j \in 1..Len(ts) |->
        [ts[j] EXCEPT !.timer = IF @ > d THEN @ - d ELSE 0]]

\* task j goes on with the liquidations of queue: it returns when none is
\* left; else send_liquidation_alert up to the next await that suspends
\* (side.upper() raises on a side that is no string: caught, nothing sent)
Proceed(j, token, queue) ==
    IF queue = <<>>
    THEN /\ tasks' = SetTask(j, Task(token, <<>>, "done", 0))
         /\ UNCHANGED <<alerted, time_since_last, since_request, request_gap,
                        attempts, failed>>
    ELSE /\ alerted' = Bump(alerted, Head(queue).hash)
         /\ IF Head(queue).side = NoSide
            THEN /\ tasks' = SetTask(j, Task(token, queue, "alert_pause",
                                             ALERT_PAUSE))
                 /\ UNCHANGED <<time_since_last, since_request, request_gap,
                                attempts, failed>>
            ELSE IF time_since_last < min_interval_futures
            THEN /\ tasks' = SetTask(j, Task(token, queue, "sm_wait",
                                min_interval_futures - time_since_last))
                 /\ UNCHANGED <<time_since_last, since_request, request_gap,
                                attempts, failed>>
            ELSE /\ Request("alert", 0)
                 /\ tasks' = SetTask(j, Task(token, queue, "alert_pause",
                                             ALERT_PAUSE))

----------------------------------------------------------------------------
(* HyperliquidFuturesBot: start and monitor_all_futures_liquidations *)

\* start(): the startup message, then running = True and the monitor loop
F_Start ==
    /\ script = "futures"
    /\ pc = "main"
    /\ Request("startup", 0)
    /\ running' = TRUE
    /\ pc' = "while"
    /\ UNCHANGED <<fetched, railway_vars>>
    /\ UNCHANGED <<script, coins, i, k, delay, alerted, futures_vars,
                   final_only, other_vars>>

\* "while self.running"
F_While ==
    /\ script = "futures"
    /\ pc = "while"
    /\ pc' = IF running THEN "scan" ELSE "returned"
    /\ UNCHANGED <<fetched, railway_vars>>
    /\ UNCHANGED <<script, running, coins, i, k, time_since_last, delay,
                   alerted, attempts, failed, since_request, request_gap,
                   futures_vars, final_only, other_vars>>

\* urlopen blocks the event loop while a meta or recentTrades request is
\* under way: a tick passes, also for the tasks that sleep
F_Blocked ==
    /\ script = "futures"
    /\ \/ pc = "scan"
       \/ pc = "gather" /\ k < Len(Batch(coins, i))
    /\ Pass(1)
    /\ tasks' = Later(tasks, 1)
    /\ UNCHANGED <<fetched, railway_vars>>
    /\ UNCHANGED <<script, pc, running, coins, i, k, delay, alerted,
                   all_tokens, update_due, meta_log, final_only, other_vars>>

\* (mutant) last_token_update is set whatever the refresh brought
RefreshAdvanced(due, new_tokens) == FALSE

\* is the refresh still due after this call?  "self.last_token_update =
\* current_time" is inside "if new_tokens"
RefreshDue(due, new_tokens) == due /\ new_tokens = <<>>

\* "all_tokens = await self.get_recent_trades_all_tokens()": the hourly
\* refresh, the second request when the cache is still empty, and the list
\* of the cache.  With names that are strings nothing in it raises, so its
\* handler and the fallback list are never reached.
F_GetTokens ==
    /\ script = "futures"
    /\ pc = "scan"
    /\ \E first \in MetaAnswers, second \in MetaAnswers :
          LET new_tokens == IF update_due
                            THEN get_all_tradable_assets(first) ELSE <<>>
              refreshed == IF new_tokens # <<>>
                           THEN UpdateTokens(all_tokens, Names(new_tokens))
                           ELSE all_tokens
              refilled == IF refreshed = {}
                          THEN UpdateTokens(refreshed,
                                 Names(get_all_tradable_assets(second)))
                          ELSE refreshed
          IN  /\ all_tokens' = refilled
              /\ update_due' = RefreshDue(update_due, new_tokens)
              /\ meta_log' = (IF update_due THEN <<first>> ELSE <<>>)
                             \o (IF refreshed = {} THEN <<second>> ELSE <<>>)
              /\ coins' \in ListOrders(refilled)
    /\ i' = 0
    /\ pc' = "for_batch"
    /\ fetched' = <<>>
    /\ UNCHANGED railway_vars
    /\ UNCHANGED <<script, running, k, time_since_last, delay, alerted,
                   attempts, failed, since_request, request_gap, tasks,
                   final_only, other_vars>>

\* an exception nothing below the scan loop catches (an error of the
\* runtime): the handler logs it and sleeps 60 s
F_UnexpectedException ==
    /\ script = "futures"
    /\ pc = "scan"
    /\ pc' = "error_pause"
    /\ delay' = ERROR_PAUSE
    /\ UNCHANGED <<fetched, railway_vars>>
    /\ UNCHANGED <<script, running, coins, i, k, time_since_last, alerted,
                   attempts, failed, since_request, request_gap,
                   futures_vars, final_only, other_vars>>

\* "for i in range(0, len(all_tokens), batch_size)": the tasks of the next
\* batch are created, or the cycle ends with sleep(30)
F_ForBatch ==
    /\ script = "futures"
    /\ pc = "for_batch"
    /\ IF i < Len(coins)
       THEN /\ pc' = "gather"
            /\ k' = 0
            /\ tasks' = <<>>
            /\ UNCHANGED delay
       ELSE /\ pc' = "scan_pause"
            /\ delay' = SCAN_PAUSE
            /\ UNCHANGED <<k, tasks>>
    /\ UNCHANGED <<fetched, railway_vars>>
    /\ UNCHANGED <<script, running, coins, i, time_since_last, alerted,
                   attempts, failed, since_request, request_gap, all_tokens,
                   update_due, meta_log, final_only, other_vars>>

\* the first step of the next task of the batch: the blocking fetch, the
\* classification and the first alert, up to the first await that suspends.
\* The event loop starts the tasks in the order gather created them, before
\* it wakes any task that sleeps.
F_ProcessToken ==
    /\ script = "futures"
    /\ pc = "gather"
    /\ k < Len(Batch(coins, i))
    /\ LET token == Batch(coins, i)[k + 1]
       IN  \E answer \in FuturesAnswers(token) :
              Proceed(k + 1, token, get_futures_liquidations(token, answer))
    /\ k' = k + 1
    /\ fetched' = Append(fetched, Batch(coins, i)[k + 1])
    /\ UNCHANGED railway_vars
    /\ UNCHANGED <<script, pc, running, coins, i, delay, all_tokens,
                   update_due, meta_log, final_only, other_vars>>

\* every task that has not returned sleeps: a tick passes
F_Tick ==
    /\ script = "futures"
    /\ pc = "gather"
    /\ k = Len(Batch(coins, i))
    /\ \E j \in 1..Len(tasks) : tasks[j].state # "done"
    /\ \A j \in 1..Len(tasks) : tasks[j].state # "done" => tasks[j].timer > 0
    /\ Pass(1)
    /\ tasks' = Later(tasks, 1)
    /\ UNCHANGED <<fetched, railway_vars>>
    /\ UNCHANGED <<script, pc, running, coins, i, k, delay, alerted,
                   all_tokens, update_due, meta_log, final_only, other_vars>>

\* "await asyncio.sleep(wait_time)" of send_message is over for a task: its
\* request, then "await asyncio.sleep(0.5)"
F_WakeRequest ==
    /\ script = "futures"
    /\ pc = "gather"
    /\ k = Len(Batch(coins, i))
    /\ \E j \in 1..Len(tasks) :
          /\ tasks[j].state = "sm_wait"
          /\ tasks[j].timer = 0
          /\ Request("alert", 0)
          /\ tasks' = SetTask(j, Task(tasks[j].token, tasks[j].queue,
                                      "alert_pause", ALERT_PAUSE))
    /\ UNCHANGED <<fetched, railway_vars>>
    /\ UNCHANGED <<script, pc, running, coins, i, k, delay, alerted,
                   all_tokens, update_due, meta_log, final_only, other_vars>>

\* "await asyncio.sleep(0.5)" is over for a task: its next liquidation
F_WakeNext ==
    /\ script = "futures"
    /\ pc = "gather"
    /\ k = Len(Batch(coins, i))
    /\ \E j \in 1..Len(tasks) :
          /\ tasks[j].state = "alert_pause"
          /\ tasks[j].timer = 0
          /\ Proceed(j, tasks[j].token, Tail(tasks[j].queue))
    /\ UNCHANGED <<fetched, railway_vars>>
    /\ UNCHANGED <<script, pc, running, coins, i, k, delay, all_tokens,
                   update_due, meta_log, final_only, other_vars>>

\* gather returns once every task has returned: "await asyncio.sleep(2)"
F_GatherDone ==
    /\ script = "futures"
    /\ pc = "gather"
    /\ k = Len(Batch(coins, i))
    /\ \A j \in 1..Len(tasks) : tasks[j].state = "done"
    /\ pc' = "batch_pause"
    /\ delay' = BATCH_PAUSE
    /\ UNCHANGED <<fetched, railway_vars>>
    /\ UNCHANGED <<script, running, coins, i, k, time_since_last, alerted,
                   attempts, failed, since_request, request_gap,
                   futures_vars, final_only, other_vars>>

\* the pause between batches is over: the next value of i
F_BatchPause ==
    /\ script = "futures"
    /\ pc = "batch_pause"
    /\ Pass(delay)
    /\ i' = i + batch_size
    /\ pc' = "for_batch"
    /\ delay' = 0
    /\ UNCHANGED <<fetched, railway_vars>>
    /\ UNCHANGED <<script, running, coins, k, alerted, futures_vars,
                   final_only, other_vars>>

\* "await asyncio.sleep(30)" or, in the handler, "await asyncio.sleep(60)"
\* is over: back to the loop condition
F_CyclePause ==
    /\ script = "futures"
    /\ pc \in {"scan_pause", "error_pause"}
    /\ Pass(delay)
    /\ pc' = "while"
    /\ delay' = 0
    /\ UNCHANGED <<fetched, railway_vars>>
    /\ UNCHANGED <<script, running, coins, i, k, alerted, futures_vars,
                   final_only, other_vars>>

\* an hour has gone by since last_token_update while the loop sleeps
F_HourPasses ==
    /\ script = "futures"
    /\ pc \in {"scan_pause", "error_pause"}
    /\ ~update_due
    /\ update_due' = TRUE
    /\ UNCHANGED <<fetched, railway_vars>>
    /\ UNCHANGED <<script, pc, running, coins, i, k, time_since_last, delay,
                   alerted, attempts, failed, since_request, request_gap,
                   all_tokens, tasks, meta_log, final_only, other_vars>>

\* stop(), called while the monitor coroutine is suspended
F_Stop ==
    /\ script = "futures"
    /\ \/ pc \in {"batch_pause", "scan_pause", "error_pause"}
       \/ pc = "gather" /\ k = Len(Batch(coins, i))
    /\ running
    /\ running' = FALSE
    /\ UNCHANGED <<fetched, railway_vars>>
    /\ UNCHANGED <<script, pc, coins, i, k, time_since_last, delay, alerted,
                   attempts, failed, since_request, request_gap,
                   futures_vars, final_only, other_vars>>

monitor_all_futures_liquidations ==
    \/ F_While
    \/ F_Blocked
    \/ F_GetTokens
    \/ F_UnexpectedException
    \/ F_ForBatch
    \/ F_ProcessToken
    \/ F_Tick
    \/ F_WakeRequest
    \/ F_WakeNext
    \/ F_GatherDone
    \/ F_BatchPause
    \/ F_CyclePause

InitFutures ==
    script = "futures" /\ environ = Provided /\ call = NoCall /\ Boot

NextFutures ==
    F_Start \/ monitor_all_futures_liquidations \/ F_HourPasses \/ F_Stop

SpecFutures == InitFutures /\ [][NextFutures]_vars

----------------------------------------------------------------------------
(* Either of the two scripts that scan every symbol in each cycle          *)

InitScanners == InitStop \/ InitFutures

NextScanners == Next \/ NextFutures

SpecScanners == InitScanners /\ [][NextScanners]_vars

----------------------------------------------------------------------------
(* Single calls: a function of the scripts applied to one input, the inputs *)
(* drawn from bounded sets                                                   *)

\* one symbol of each size tier
Tiers == {"BTC", "ETH", "SOL", "DOGE", "UNI"}

\* sizes and prices around the thresholds of the tiers, of
\* min_liquidation_value and of the 100K test
Sizes == {1, 2, 19, 20, 999, 1000, 4999, 5000, 49999, 50000}

Prices == {1, 2, 49999, 50000, 99999, 100000, 100001}

Quantities == {q \in Sizes \X Prices : q[1] <= MaxNotional \div q[2]}

\* ages in minutes around the five-minute window
Ages == {0, 5, 6}

SingleTrades ==
    { Trade("0xa", age, q[1], q[2], "Sell", users, bad) :
        q \in Quantities, age \in Ages, users \in 0..2, bad \in BOOLEAN }

\* the trades of the longer responses
CallPool ==
    { Trade("0xa", 0, 3, 60000, "Sell", 0, FALSE),    \* 180K
      Trade("0xb", 5, 1, 60000, "B", 2, FALSE),       \* 60K, two users
      Trade("0xc", 0, 2, 60000, "A", 0, FALSE),       \* 120K
      Trade("0xc", 0, 2, 60000, "A", 0, TRUE) }       \* "px" is no number

CallLists == UNION { [1..m -> CallPool] : m \in 0..(MaxTrades + 1) }

----------------------------------------------------------------------------
(* send_liquidation_alert: the text of an alert                            *)

MaxSmall == 2600

THOUSAND == 1000

MILLION == 1000000

\* the sides given to str.lower in the calls under study
Sides ==
    {"Sell", "sell", "SELL", "Short", "short", "S", "s", "A", "B", "Buy"}

\* str.lower()
lower(side) ==
    CASE side \in {"Sell", "sell", "SELL"} -> "sell"
      [] side \in {"Short", "short", "SHORT"} -> "short"
      [] side \in {"S", "s"} -> "s"
      [] side = "A" -> "a"
      [] side = "B" -> "b"
      [] side \in {"Buy", "BUY"} -> "buy"

\* str.upper()
upper(side) ==
    CASE side \in {"Sell", "sell", "SELL"} -> "SELL"
      [] side \in {"Short", "short"} -> "SHORT"
      [] side \in {"S", "s"} -> "S"
      [] side = "A" -> "A"
      [] side = "B" -> "B"
      [] side = "Buy" -> "BUY"

\* (mutant) the two directions exchanged
IsBuy(side) == lower(side) \notin {"sell", "short", "s"}

\* "if side.lower() in ['sell', 'short', 's']"
IsShort(side) == lower(side) \in {"sell", "short", "s"}

\* the two signs are written by their names
point(side) == IF IsShort(side) THEN "green_circle" ELSE "red_circle"

direction(side) == IF IsShort(side) THEN "SHORT" ELSE "LONG"

\* (mutant) the digits are cut, not rounded
Truncated(num, den) == num \div den

\* format(num / den, ".0f") when num / den is a float that is exact or
\* whose error is far below its distance to a tie: the nearest integer,
\* and the even one at a tie
HalfEven(num, den) ==
    LET q == num \div den
        twice == 2 * (num % den)
    IN  IF twice < den THEN q
        ELSE IF twice > den THEN q + 1
        ELSE IF q % 2 = 0 THEN q ELSE q + 1

\* the notionals up to 2 * MILLION of the form x.y5 millions for which the
\* double nearest to notional / 1000000 is above the quotient (1.05 is
\* stored as 1.0500000000000000444, 1.15 as 1.149999999999999911)
DoubleAbove == {1050000, 1350000, 1550000, 1850000}

\* the tenths of format(value / 1000000, ".1f"): x.25 and x.75 are exact
\* doubles and go to the even tenth; every other tie goes where the error
\* of the double puts it
Tenths(value) ==
    LET unit == MILLION \div 10
    IN  IF 2 * (value % unit) # unit \/ 4 * (value % MILLION) \in
                                           {MILLION, 3 * MILLION}
        THEN HalfEven(value, unit)
        ELSE IF value \in DoubleAbove THEN value \div unit + 1
        ELSE value \div unit

\* "Formater le montant"
amount_str(value) ==
    IF value >= MILLION
    THEN "$" \o ToString(Tenths(value) \div 10) \o "."
             \o ToString(Tenths(value) % 10) \o "M"
    ELSE IF value >= THOUSAND
    THEN "$" \o ToString(HalfEven(value, THOUSAND)) \o "K"
    ELSE "$" \o ToString(HalfEven(value, 1))

\* f"${px:.4f}" of a price that is a whole number
price_str(px) == "$" \o ToString(px) \o ".0000"

confidence(liquidation) ==
    IF liquidation.users >= 2 \/ liquidation.value_usd >= OVERRIDE_VALUE
    THEN "rotating_light" ELSE "warning"

\* the parts of the f-string "message", in their order
alert_message(liquidation) ==
    [confidence |-> confidence(liquidation),
     point |-> point(liquidation.side),
     coin |-> liquidation.coin,
     direction |-> direction(liquidation.side),
     amount_str |-> amount_str(liquidation.value_usd),
     price |-> price_str(liquidation.px)]

\* the messages given to send_message when send_liquidation_alert is called
\* on each liquidation in turn: "side.lower()" raises on a side that is
\* null, and the handler of send_liquidation_alert sends nothing
Messages(liquidations) ==
    LET sendable == SelectSeq(liquidations, LAMBDA l : l.side # NoSide)
    IN  [j \in 1..Len(sendable) |-> alert_message(sendable[j])]

\* the notionals of the direct calls: all the small ones, every half
\* thousand, and the ones around a million
Notionals ==
    (0..MaxSmall)
        \cup { 500 * m : m \in 0..(MaxNotional \div 500) }
        \cup ((MILLION - 600)..(MILLION + 600))

\* send_liquidation_alert called on one dict
AlertCall(liquidation) ==
    [op |-> "alert", coin |-> liquidation.coin, trades |-> <<>>,
     seen |-> {}, stage |-> "called", liquidations |-> <<liquidation>>,
     seen_after |-> {}, raised |-> FALSE, sent |-> <<>>]

AlertCalls ==
    { AlertCall(Liquidation("BTC", Trade("0xa", 0, v, 1, "Sell", 0, FALSE))) :
        v \in Notionals }
    \cup
    { AlertCall(Liquidation("SOL", Trade("0xa", 0, v, 1, side, users, FALSE))) :
        v \in {900, 45000, 99999, 100000, 1500000},
        side \in Sides \cup {NoSide}, users \in 0..2 }


Call(op, coin, trades, seen) ==
    [op |-> op, coin |-> coin, trades |-> trades, seen |-> seen,
     stage |-> "called", liquidations |-> <<>>, seen_after |-> seen,
     raised |-> FALSE, sent |-> <<>>]

AnalyzeCalls ==
    { Call("analyze", coin, <<t>>, seen) :
        coin \in Tiers, t \in SingleTrades, seen \in {{}, {"0xa"}} }
    \cup
    { Call("analyze", coin, ts, seen) :
        coin \in TradedCoins, ts \in CallLists, seen \in {{}, {"0xc"}} }

\* analyze_coin_liquidations(coin) on a response that was fetched
CallAnalyze ==
    /\ script = "calls"
    /\ call.op = "analyze"
    /\ call.stage = "called"
    /\ LET r == analyze_coin_liquidations(call.coin,
                    [status |-> "ok", trades |-> call.trades], call.seen)
       IN  call' = [call EXCEPT !.stage = "analyzed",
                                !.liquidations = r.liquidations,
                                !.seen_after = r.seen,
                                !.raised = r.raised]
    /\ UNCHANGED <<fetched, railway_vars>>
    /\ UNCHANGED <<script, pc, running, coins, i, k, time_since_last, delay,
                   alerted, since_request, request_gap, final_vars,
                   futures_vars, environ, exit_status>>

----------------------------------------------------------------------------
(* HyperliquidBot (bot_railway.py): identify_liquidations and the filter   *)
(* of monitor_liquidations on what it returns                              *)

ONE_HOUR == 60

\* str(x) of a float, and float() of such a string: repr gives the shortest
\* string that reads back as the same float
str(x) == [repr |-> x]

float(text) == text.repr

\* "Seuils pour identifier les liquidations": "sz > 0.1" is written 10 * sz > 1
is_significant(coin, trade) ==
    IF coin \in {"BTC", "ETH"}
    THEN 10 * trade.sz > 1 /\ value_usd(trade) > 5000
    ELSE IF coin \in {"SOL", "AVAX", "ADA", "DOT", "LINK", "UNI", "ATOM",
                      "NEAR", "FTM"}
    THEN trade.sz > 5 /\ value_usd(trade) > 1000
    ELSE IF coin \in {"MATIC", "XRP", "LTC", "BCH", "AAVE", "COMP", "MKR",
                      "ALGO", "FIL", "VET"}
    THEN trade.sz > 10 /\ value_usd(trade) > 800
    ELSE IF coin \in {"DOGE", "SHIB", "PEPE", "FLOKI", "BONK", "WIF", "BOME"}
    THEN trade.sz > 1000 /\ value_usd(trade) > 500
    ELSE trade.sz > 20 /\ value_usd(trade) > 500

\* the dict identify_liquidations appends
RailwayLiquidation(coin, trade) ==
    [coin |-> coin, sz |-> str(trade.sz), px |-> str(trade.px),
     side |-> trade.side, time |-> trade.time]

\* does the loop body reach "liquidations.append" for this trade?
Identified(coin, trade) ==
    /\ ~(trade.time > ONE_HOUR)
    /\ ~trade.bad
    /\ is_significant(coin, trade)

identify_liquidations(trades, coin) ==
    LET kept == SelectSeq(trades, LAMBDA t : Identified(coin, t))
    IN  [j \in 1..Len(kept) |-> RailwayLiquidation(coin, kept[j])]

\* "if value >= self.min_liquidation_value" of monitor_liquidations
LargeEnough(liq) == float(liq.sz) * float(liq.px) >= min_liquidation_value

\* the liquidations monitor_liquidations gives to send_liquidation
railway_sent(liquidations) == SelectSeq(liquidations, LargeEnough)

RailwayTrades ==
    { Trade("0xa", age, q[1], q[2], "Sell", 0, bad) :
        q \in Quantities, age \in {0, ONE_HOUR, ONE_HOUR + 1},
        bad \in BOOLEAN }

RailwayCalls ==
    { Call("identify", coin, <<t>>, {}) :
        coin \in Tiers, t \in RailwayTrades }

\* the body of "for coin in current_batch" on a response that was fetched:
\* identify_liquidations, then the filter on what it returned
CallIdentify ==
    /\ script = "calls"
    /\ call.op = "identify"
    /\ call.stage = "called"
    /\ LET liquidations == identify_liquidations(call.trades, call.coin)
       IN  call' = [call EXCEPT !.stage = "dispatched",
                                !.liquidations = liquidations,
                                !.sent = railway_sent(liquidations)]
    /\ UNCHANGED <<fetched, railway_vars>>
    /\ UNCHANGED <<script, pc, running, coins, i, k, time_since_last, delay,
                   alerted, since_request, request_gap, final_vars,
                   futures_vars, environ, exit_status>>

\* send_liquidation_alert of bot_railway_futures.py: "side" is put in upper
\* case, then compared in lower case with ['sell', 'short']
FuturesIsShort(side) == lower(upper(side)) \in {"sell", "short"}

FuturesDirection(side) == IF FuturesIsShort(side) THEN "SHORT" ELSE "LONG"

futures_alert_message(liquidation) ==
    [point |-> IF FuturesIsShort(liquidation.side)
               THEN "green_circle" ELSE "red_circle",
     coin |-> liquidation.coin,
     direction |-> FuturesDirection(liquidation.side),
     amount_str |-> amount_str(liquidation.value_usd),
     price |-> price_str(liquidation.px)]

\* send_liquidation of bot_railway.py: the same test of "side"
RailwayIsShort(side) == lower(upper(side)) \in {"sell", "short"}

RailwayDirection(side) == IF RailwayIsShort(side) THEN "SHORT" ELSE "LONG"

\* three digits of a group after the first
Group(digits) ==
    (IF digits < 10 THEN "00" ELSE IF digits < 100 THEN "0" ELSE "")
        \o ToString(digits)

\* format(value, ",.0f") of a whole number
RECURSIVE Grouped(_)
Grouped(value) ==
    IF value < THOUSAND THEN ToString(value)
    ELSE Grouped(value \div THOUSAND) \o "," \o Group(value % THOUSAND)

\* the signs are the other way round in this script
railway_message(liquidation) ==
    [point |-> IF RailwayIsShort(liquidation.side)
               THEN "red_circle" ELSE "green_circle",
     coin |-> liquidation.coin,
     direction |-> RailwayDirection(liquidation.side),
     amount_str |-> "$" \o Grouped(liquidation.sz * liquidation.px),
     price |-> "$" \o ToString(liquidation.px) \o ".00"]

\* the message the alert function of a script makes for a liquidation
VariantMessage(op, liquidation) ==
    IF op = "futures_alert" THEN futures_alert_message(liquidation)
    ELSE railway_message(liquidation)

\* the alert functions of the two other scripts, each called on one dict
VariantCalls ==
    { [AlertCall(Liquidation("SOL", Trade("0xa", 0, v, 1, side, 0, FALSE)))
          EXCEPT !.op = op] :
        op \in {"futures_alert", "railway_alert"},
        v \in {900, 45000, 1500000},
        side \in Sides \cup {NoSide} }

\* send_liquidation_alert of the futures script or send_liquidation of the
\* rotating one: ".upper()" raises on a side that is null, and the handler
\* sends nothing
CallVariantAlert ==
    /\ script = "calls"
    /\ call.op \in {"futures_alert", "railway_alert"}
    /\ call.stage = "called"
    /\ LET sendable == SelectSeq(call.liquidations,
                                 LAMBDA l : l.side # NoSide)
       IN  call' = [call EXCEPT
                      !.stage = "dispatched",
                      !.sent = [j \in 1..Len(sendable) |->
                                  VariantMessage(call.op, sendable[j])]]
    /\ UNCHANGED <<fetched, railway_vars>>
    /\ UNCHANGED <<script, pc, running, coins, i, k, time_since_last, delay,
                   alerted, since_request, request_gap, final_vars,
                   futures_vars, environ, exit_status>>

\* the "for liquidation in result" loop on what the analysis returned, or
\* send_liquidation_alert called on its own
CallAlert ==
    /\ script = "calls"
    /\ \/ call.op = "analyze" /\ call.stage = "analyzed"
       \/ call.op = "alert" /\ call.stage = "called"
    /\ call' = [call EXCEPT !.stage = "dispatched",
                            !.sent = Messages(call.liquidations)]
    /\ UNCHANGED <<fetched, railway_vars>>
    /\ UNCHANGED <<script, pc, running, coins, i, k, time_since_last, delay,
                   alerted, since_request, request_gap, final_vars,
                   futures_vars, environ, exit_status>>

InitCalls ==
    /\ script = "calls"
    /\ environ = Provided
    /\ call \in AnalyzeCalls \cup RailwayCalls \cup AlertCalls
                  \cup VariantCalls
    /\ Boot

NextCalls == CallAnalyze \/ CallIdentify \/ CallAlert \/ CallVariantAlert

SpecCalls == InitCalls /\ [][NextCalls]_vars

----------------------------------------------------------------------------
(* HyperliquidBot of bot_railway.py: the rotating scanner                   *)

\* scans a run of the model goes through
MaxCycles == 120

\* (mutant) the start index is not taken modulo the length of the list
start_idx_unwrapped(count) == (count - 1) * railway_batch_size

\* "(check_count - 1) * batch_size % len(coins_to_check)": * and % have the
\* same precedence and group from the left
start_idx(count) ==
    ((count - 1) * railway_batch_size) % Len(coins_to_check)

\* min(start_idx + batch_size, len(coins_to_check))
end_idx(start) == Min(start + railway_batch_size, Len(coins_to_check))

\* coins_to_check[start_idx:end_idx], empty when start_idx is not below
\* end_idx
current_batch(start) ==
    IF start < end_idx(start)
    THEN SubSeq(coins_to_check, start + 1, end_idx(start))
    ELSE <<>>

\* the trades the recentTrades request of the rotating scanner may return
RailwayPool ==
    { Trade("0xa", 0, 5000, 20, "Sell", 0, FALSE),     \* 100K: sent
      Trade("0xb", 0, 5000, 2, "Buy", 0, FALSE),       \* 10K: identified only
      Trade("0xc", ONE_HOUR + 1, 5000, 20, "Sell", 0, FALSE) }

\* get_recent_trades returns the response, or None when the request raised
RailwayAnswers(coin) ==
    { [status |-> "error", trades |-> <<>>] }
    \cup { [status |-> "ok", trades |-> ts] :
             ts \in IF coin \in TradedCoins
                    THEN {<<>>} \cup { <<t>> : t \in RailwayPool }
                         \cup { <<t, t>> : t \in RailwayPool }
                    ELSE {<<>>} }

\* start(): the startup message, then running = True and the monitor loop
R_Start ==
    /\ script = "railway"
    /\ pc = "main"
    /\ Request("startup", 0)
    /\ running' = TRUE
    /\ pc' = "while"
    /\ UNCHANGED <<fetched, railway_vars>>
    /\ UNCHANGED <<script, coins, i, k, delay, alerted, futures_vars,
                   final_only, other_vars>>

\* "while self.running", then the try body down to "for coin in
\* current_batch": the scan is counted and its slice of the list is taken
R_While ==
    /\ script = "railway"
    /\ pc = "while"
    /\ IF running /\ check_count < MaxCycles
       THEN /\ check_count' = check_count + 1
            /\ i' = start_idx(check_count')
            /\ coins' = current_batch(i')
            /\ k' = 0
            /\ fetched' = <<>>
            /\ pc' = "for_coin"
       ELSE /\ pc' = "returned"
            /\ UNCHANGED <<check_count, i, coins, k, fetched>>
    /\ UNCHANGED last_scan
    /\ UNCHANGED <<script, running, time_since_last, delay, alerted,
                   attempts, failed, since_request, request_gap,
                   futures_vars, final_only, other_vars>>

\* "for coin in current_batch": get_recent_trades blocks for d ticks, then
\* identify_liquidations and the filter on the value; after the last coin,
\* sleep(45)
R_ForCoin ==
    /\ script = "railway"
    /\ pc = "for_coin"
    /\ IF k < Len(coins)
       THEN \E answer \in RailwayAnswers(coins[k + 1]),
               d \in 0..MaxNetDelay :
                LET liquidations ==
                        identify_liquidations(answer.trades, coins[k + 1])
                IN  /\ results' = <<railway_sent(liquidations)>>
                    /\ n' = 0
                    /\ fetched' = Append(fetched, coins[k + 1])
                    /\ last_scan' =
                           [last_scan EXCEPT ![i + k + 1] = check_count]
                    /\ Pass(d)
                    /\ pc' = "send"
                    /\ UNCHANGED delay
       ELSE /\ pc' = "scan_pause"
            /\ delay' = RAILWAY_SCAN_PAUSE
            /\ UNCHANGED <<results, n, fetched, last_scan, time_since_last,
                           since_request, request_gap, attempts, failed>>
    /\ UNCHANGED check_count
    /\ UNCHANGED <<script, running, coins, i, k, alerted, processed_hashes,
                   produced, alert_log, fetch_failed, skipped, trade_error,
                   futures_vars, other_vars>>

\* "await self.send_liquidation(liq)" for the next liquidation that is large
\* enough: send_message sleeps until min_interval has passed, then makes the
\* request; after the last one, sleep(1)
R_Send ==
    /\ script = "railway"
    /\ pc = "send"
    /\ IF n < Len(results[1])
       THEN /\ Request("railway",
                       IF time_since_last # NoTime
                          /\ time_since_last < MinInterval
                       THEN MinInterval - time_since_last ELSE 0)
            /\ n' = n + 1
            /\ UNCHANGED <<pc, delay>>
       ELSE /\ pc' = "coin_pause"
            /\ delay' = COIN_PAUSE
            /\ UNCHANGED <<n, time_since_last, since_request, request_gap,
                           attempts, failed>>
    /\ UNCHANGED <<fetched, railway_vars>>
    /\ UNCHANGED <<script, running, coins, i, k, alerted, results,
                   processed_hashes, produced, alert_log, fetch_failed,
                   skipped, trade_error, futures_vars, other_vars>>

\* sleep(1) is over: the next coin of the batch
R_CoinPause ==
    /\ script = "railway"
    /\ pc = "coin_pause"
    /\ Pass(delay)
    /\ delay' = 0
    /\ k' = k + 1
    /\ pc' = "for_coin"
    /\ UNCHANGED <<fetched, railway_vars>>
    /\ UNCHANGED <<script, running, coins, i, alerted, final_only,
                   futures_vars, other_vars>>

\* sleep(45) is over: back to "while self.running"
R_ScanPause ==
    /\ script = "railway"
    /\ pc = "scan_pause"
    /\ Pass(delay)
    /\ delay' = 0
    /\ pc' = "while"
    /\ UNCHANGED <<fetched, railway_vars>>
    /\ UNCHANGED <<script, running, coins, i, k, alerted, final_only,
                   futures_vars, other_vars>>

\* stop() is called while the coroutine is suspended in a sleep
R_Stop ==
    /\ script = "railway"
    /\ pc \in {"coin_pause", "scan_pause"}
    /\ running
    /\ running' = FALSE
    /\ UNCHANGED <<fetched, railway_vars>>
    /\ UNCHANGED <<script, pc, coins, i, k, time_since_last, delay, alerted,
                   attempts, failed, since_request, request_gap,
                   futures_vars, final_only, other_vars>>

\* HyperliquidBot.monitor_liquidations.  No statement of the outer try body
\* raises on any answer (get_recent_trades, identify_liquidations and
\* send_liquidation catch their own exceptions), so the handlers of lines
\* 169 and 176 are not entered.
railway_monitor_liquidations ==
    R_While \/ R_ForCoin \/ R_Send \/ R_CoinPause \/ R_ScanPause

InitRailway ==
    script = "railway" /\ environ = Provided /\ call = NoCall /\ Boot

NextRailway == R_Start \/ railway_monitor_liquidations \/ R_Stop

SpecRailway == InitRailway /\ [][NextRailway]_vars

----------------------------------------------------------------------------
(* Properties of analyze_coin_liquidations *)

\* the call has returned a liquidation made from this trade
Emitted(trade) ==
    \E m \in 1..Len(call.liquidations) :
        call.liquidations[m] = Liquidation(call.coin, trade)

\* trade j of the call is one the loop has not met before: its hash was not
\* in the seen set and no earlier trade of the response carries it
Fresh(j) ==
    /\ call.trades[j].hash \notin call.seen
    /\ \A m \in 1..(j - 1) : call.trades[m].hash # call.trades[j].hash

Analyzed == script = "calls" /\ call.op = "analyze" /\ call.stage # "called"

WasIdentified ==
    script = "calls" /\ call.op = "identify" /\ call.stage # "called"

\* C11: a trade whose notional is below min_liquidation_value gives no
\* liquidation (so nothing to alert), whatever its symbol, size, number of
\* users and time; in bot_railway.py, where the floor is tested on what
\* identify_liquidations returned, it is not given to send_liquidation
C11_BelowMinimumDropped ==
    /\ Analyzed =>
          \A j \in 1..Len(call.trades) :
              (~call.trades[j].bad
                  /\ value_usd(call.trades[j]) < min_liquidation_value)
              => ~Emitted(call.trades[j])
    /\ WasIdentified =>
          \A j \in 1..Len(call.trades) :
              (~call.trades[j].bad
                  /\ value_usd(call.trades[j]) < min_liquidation_value)
              => \A m \in 1..Len(call.sent) :
                    call.sent[m] # RailwayLiquidation(call.coin,
                                                      call.trades[j])

\* a recent, new trade of two users that reaches its size tier and stays
\* below the minimum has been analysed
C11_Witness ==
    /\ Analyzed
    /\ Len(call.trades) = 1
    /\ LET trade == call.trades[1]
       IN  /\ ~trade.bad /\ Fresh(1) /\ trade.time <= FIVE_MINUTES
           /\ trade.users >= 2
           /\ trade.sz >= SizeThreshold(call.coin)
           /\ value_usd(trade) < min_liquidation_value
    /\ call.liquidations = <<>>

\* C12: a well-formed new trade with at least two users that is recent and
\* reaches min_liquidation_value gives a liquidation, whether or not its
\* size reaches the tier of its symbol
C12_TwoUsersClassified ==
    Analyzed =>
        \A j \in 1..Len(call.trades) :
            (~call.trades[j].bad /\ Fresh(j)
                /\ call.trades[j].users >= 2
                /\ call.trades[j].time <= FIVE_MINUTES
                /\ value_usd(call.trades[j]) >= min_liquidation_value)
            => Emitted(call.trades[j])

\* a trade of two users below its size tier and below 100K was emitted
C12_Witness ==
    /\ Analyzed
    /\ Len(call.trades) = 1
    /\ LET trade == call.trades[1]
       IN  /\ trade.users >= 2
           /\ trade.sz < SizeThreshold(call.coin)
           /\ value_usd(trade) < OVERRIDE_VALUE
           /\ Emitted(trade)

\* C13: a well-formed new trade gives a liquidation exactly when it is
\* recent, its notional reaches min_liquidation_value, and its size reaches
\* the tier of its symbol or it has two users or its notional exceeds
\* 100,000
C13_ExactCriteria ==
    Analyzed =>
        \A j \in 1..Len(call.trades) :
            (~call.trades[j].bad /\ Fresh(j)) =>
                (Emitted(call.trades[j]) <=>
                    /\ call.trades[j].time <= FIVE_MINUTES
                    /\ value_usd(call.trades[j]) >= min_liquidation_value
                    /\ \/ call.trades[j].sz >= SizeThreshold(call.coin)
                       \/ call.trades[j].users >= 2
                       \/ value_usd(call.trades[j]) > OVERRIDE_VALUE)

\* the messages of send_liquidation_alert are made
Dispatched ==
    /\ script = "calls"
    /\ call.op \in {"analyze", "alert"}
    /\ call.stage = "dispatched"

\* the trade of the scenario: 3 BTC sold at 60000, no users
ScenarioTrade == Trade("0xa", 0, 3, 60000, "Sell", 0, FALSE)

\* a response for BTC that holds the trade of the scenario, not seen before
ScenarioCall ==
    /\ call.op = "analyze"
    /\ call.coin = "BTC"
    /\ \E j \in 1..Len(call.trades) :
          call.trades[j] = ScenarioTrade /\ Fresh(j)

\* C16: the trade of the scenario is classified, and the alert made for it
\* says SHORT, "$180K" and "$60000.0000"
C16_Scenario ==
    /\ (Analyzed /\ ScenarioCall) => Emitted(ScenarioTrade)
    /\ (Dispatched /\ ScenarioCall) =>
          \E m \in 1..Len(call.sent) :
              /\ call.sent[m].coin = "BTC"
              /\ call.sent[m].direction = "SHORT"
              /\ call.sent[m].amount_str = "$180K"
              /\ call.sent[m].price = "$60000.0000"

\* the response is the trade of the scenario alone, and its alert is made
C16_Witness ==
    /\ Dispatched
    /\ ScenarioCall
    /\ call.trades = <<ScenarioTrade>>
    /\ Len(call.sent) = 1

\* text is value in millions with one decimal, in whole thousands, or as it
\* is, and no other text of that form is nearer to value
Rendered(text, value) ==
    IF value >= MILLION
    THEN \E t \in {value \div (MILLION \div 10),
                   value \div (MILLION \div 10) + 1} :
            /\ text = "$" \o ToString(t \div 10) \o "." \o ToString(t % 10)
                          \o "M"
            /\ 2 * (t * (MILLION \div 10) - value) <= MILLION \div 10
            /\ 2 * (value - t * (MILLION \div 10)) <= MILLION \div 10
    ELSE IF value >= THOUSAND
    THEN \E m \in {value \div THOUSAND, value \div THOUSAND + 1} :
            /\ text = "$" \o ToString(m) \o "K"
            /\ 2 * (m * THOUSAND - value) <= THOUSAND
            /\ 2 * (value - m * THOUSAND) <= THOUSAND
    ELSE text = "$" \o ToString(value)

\* trade j of the call is well formed and passes every check of the loop:
\* no trade with its hash was appended before it
Passes(j) ==
    /\ ~call.trades[j].bad
    /\ call.trades[j].hash \notin call.seen
    /\ \A m \in 1..(j - 1) :
          call.trades[m].hash = call.trades[j].hash => call.trades[m].bad
    /\ ~(call.trades[j].time > FIVE_MINUTES)
    /\ value_usd(call.trades[j]) >= min_liquidation_value
    /\ is_liquidation(call.coin, call.trades[j])

\* the response without its malformed records
WellFormed(trades) == SelectSeq(trades, LAMBDA t : ~t.bad)

\* C18: wherever the malformed records of a response are, every well-formed
\* trade that passes the checks is returned, and the liquidations are the
\* ones the response gives without its malformed records
C18_MalformedSkipped ==
    Analyzed =>
        /\ \A j \in 1..Len(call.trades) :
              Passes(j) => Emitted(call.trades[j])
        /\ call.liquidations =
              AnalyzeFrom(call.coin, WellFormed(call.trades), 1, <<>>,
                          call.seen, FALSE).liquidations

\* a malformed record before, or between, trades that are returned
C18_Witness ==
    /\ Analyzed
    /\ call.raised
    /\ Len(call.trades) = 3
    /\ call.trades[2].bad
    /\ Passes(1) /\ Emitted(call.trades[1])
    /\ Passes(3) /\ Emitted(call.trades[3])
    /\ Len(call.liquidations) = 2

\* the ways to pick the trades of n liquidations in a response, going
\* forward in the response
Picks(count) ==
    { f \in [1..count -> 1..Len(call.trades)] :
        \A a, b \in 1..count : a < b => f[a] < f[b] }

\* C19: the liquidations returned for a coin are trades of the response in
\* the order of the response, and the messages given to send_message are in
\* the order of the liquidations
C19_InputOrder ==
    /\ Analyzed =>
          \E f \in Picks(Len(call.liquidations)) :
              \A m \in 1..Len(call.liquidations) :
                  call.liquidations[m]
                      = Liquidation(call.coin, call.trades[f[m]])
    /\ Dispatched =>
          LET alerted_ones ==
                  SelectSeq(call.liquidations, LAMBDA l : l.side # NoSide)
          IN  /\ Len(call.sent) = Len(alerted_ones)
              /\ \A m \in 1..Len(call.sent) :
                    call.sent[m] = alert_message(alerted_ones[m])

\* two liquidations whose alerts differ were returned and alerted
C19_Witness ==
    /\ Analyzed
    /\ call.stage = "dispatched"
    /\ Len(call.sent) >= 2
    /\ call.sent[1] # call.sent[2]
    /\ call.liquidations[1] # call.liquidations[2]

\* the liquidations of the call for which a message is made
Sendable == SelectSeq(call.liquidations, LAMBDA l : l.side # NoSide)

\* C17: the amount of every alert is the notional in millions with one
\* decimal and M from a million on, the nearest whole number of thousands
\* and K from a thousand on, and the number itself below
C17_Magnitude ==
    Dispatched =>
        /\ Len(call.sent) = Len(Sendable)
        /\ \A m \in 1..Len(call.sent) :
              Rendered(call.sent[m].amount_str, Sendable[m].value_usd)

\* the three examples, and a notional that is rounded up to the next
\* thousand
C17_Witness ==
    /\ Dispatched
    /\ call.op = "alert"
    /\ Len(call.sent) = 1
    /\ \/ Sendable[1].value_usd = 1500000 /\ call.sent[1].amount_str = "$1.5M"
       \/ Sendable[1].value_usd = 45000 /\ call.sent[1].amount_str = "$45K"
       \/ Sendable[1].value_usd = 900 /\ call.sent[1].amount_str = "$900"
       \/ Sendable[1].value_usd = 1501 /\ call.sent[1].amount_str = "$2K"


----------------------------------------------------------------------------
(* Properties of HyperliquidLiquidationsBot *)

\* C1: send_liquidation_alert is called at most once for a trade hash over
\* the whole run, whatever symbols and cycles return the hash; the
\* liquidations a batch is about to alert hold a hash once
C1_AtMostOneAlert ==
    script = "final" =>
        /\ \A h \in Hashes : alerted[h] <= 1
        /\ \A a, b \in 1..Len(produced) :
              a # b => produced[a].hash # produced[b].hash

\* a hash alerted in an earlier batch comes back and is skipped
C1_Witness ==
    /\ script = "final"
    /\ pc = "gather"
    /\ \E h \in skipped : alerted[h] = 1

C2_AllDispatched ==
    (script = "final" /\ pc = "for_liquidation" /\ n = Len(Flat(results)))
        => alert_log = produced

C2_Step ==
    /\ (script = "final" /\ ~fetch_failed /\ fetch_failed')
          => /\ produced' = produced
             /\ processed_hashes' = processed_hashes
             /\ results' = Append(results, <<>>)
             /\ pc' = "gather"
    /\ (script = "final" /\ pc = "gather" /\ k' = k + 1 /\ trade_error')
          => /\ Len(results') = Len(results) + 1
             /\ produced' = produced \o results'[Len(results')]
             /\ pc' = "gather"
    /\ (script = "final" /\ fetch_failed /\ pc = "for_batch"
            /\ i < Len(coins))
          => pc' = "gather"

C3_NoBatchAfterStop ==
    [][(script = "final" /\ pc = "for_batch" /\ pc' = "gather")
          => running]_vars

\* C5: two successive requests to the sink are at least min_interval apart
\* (measured from the completion of the first, the least the code could
\* mean)
C5_MinInterval ==
    script = "final" => (request_gap = NoTime \/ request_gap >= min_interval)

\* C7: an alert whose send failed was attempted once and its hash is in the
\* seen set
C7_FailedAlertDropped ==
    script = "final" =>
        \A h \in failed : attempts[h] = 1 /\ h \in processed_hashes

\* a hash whose send failed in an earlier batch comes back and is skipped
C7_Witness ==
    /\ script = "final"
    /\ pc = "gather"
    /\ failed \cap skipped # {}

C8_Inv ==
    script = "final" =>
        /\ pc = "returned" => ~running
        /\ pc = "error_pause" => delay > SCAN_PAUSE

C8_Step ==
    script = "final" =>
        /\ (pc = "error_pause" /\ pc' # pc) => pc' = "while"
        /\ (pc = "while" /\ running) => pc' = "scan"

\* C8: the loop returns only with the stop flag set; the handler of the scan
\* loop sleeps longer than the pause between cycles and is followed by the
\* loop condition, which starts a cycle while the flag is not set
C8_LoopSurvives == []C8_Inv /\ [][C8_Step]_vars

\* the handler is reached, with the flag not set, after a sink failure
C8_Witness ==
    /\ script = "final"
    /\ pc = "error_pause"
    /\ running
    /\ failed # {}

\* C20: the tasks of a batch run one at a time from their first line to
\* their return, so that the test of a hash and its insertion are never
\* interleaved: two tasks of a batch never both return a trade with the
\* same hash
C20_CheckAndInsertExclusive ==
    script = "final" =>
        \A a, b \in 1..Len(results) :
            a # b =>
                \A x \in 1..Len(results[a]), y \in 1..Len(results[b]) :
                    results[a][x].hash # results[b][y].hash

\* a task of the batch under way has returned a trade, and a later task of
\* that batch has met its hash in the set: the hash was not alerted yet
C20_Witness ==
    /\ script = "final"
    /\ pc = "gather"
    /\ \E a \in 1..Len(results) :
          \E x \in 1..Len(results[a]) :
              /\ results[a][x].hash \in skipped
              /\ alerted[results[a][x].hash] = 0

\* this step makes the request of send_message for liquidation n + 1 of the
\* batch, at once or after the wait of the rate limiter
AlertRequest ==
    /\ script = "final"
    /\ pc \in {"for_liquidation", "rate_wait"}
    /\ pc' = "alert_pause"
    /\ Flat(results)[n + 1].side # NoSide

\* a liquidation of the batch handled before liquidation n + 1 had its
\* request made
EarlierRequest ==
    \E m \in 1..n : Flat(results)[m].side # NoSide

\* C23: a request for an alert that follows a request for another alert of
\* the same batch is made at least the pause between alerts after it,
\* whether send_message had to wait or not
C23_PauseBetweenAlerts ==
    [][(AlertRequest /\ EarlierRequest) => request_gap' >= ALERT_PAUSE]_vars

\* the second request of a batch was made right after the pause, with no
\* wait in send_message
C23_Witness ==
    /\ script = "final"
    /\ pc = "alert_pause"
    /\ n >= 1
    /\ Flat(results)[n + 1].side # NoSide
    /\ Flat(results)[n].side # NoSide
    /\ request_gap = ALERT_PAUSE

\* C26: when the alerts of a batch are over, one request to the sink has
\* been made for every trade whose hash the batch put in processed_hashes
C26_NoAlertLost ==
    (script = "final" /\ pc = "batch_pause") =>
        \A m \in 1..Len(produced) : attempts[produced[m].hash] = 1

\* C22: the tasks created and not yet returned are those of one batch, at
\* most batch_size, and when the tasks of a further batch are created every
\* task of the batch before has returned and each of its liquidations was
\* given to send_liquidation_alert
C22_BatchesInTurn ==
    /\ []((script = "final" /\ pc = "gather") =>
            /\ Len(Batch(coins, i)) <= batch_size
            /\ k <= Len(Batch(coins, i))
            /\ Len(results) = k)
    /\ [][(script = "final" /\ pc = "for_batch" /\ pc' = "gather" /\ i > 0)
            => /\ Len(results) = Len(Batch(coins, i - batch_size))
               /\ n = Len(Flat(results))
               /\ alert_log = Flat(results)]_vars

\* the first task of the second batch has run, after an alert of the first
C22_Witness ==
    /\ script = "final"
    /\ pc = "gather"
    /\ i = batch_size
    /\ k = 1
    /\ \E h \in Hashes : alerted[h] = 1

\* C14: once running is False in the loop, no scan cycle is started any more,
\* and from whichever place the loop is at (the request for the coins, a
\* batch, its alerts, sleep(30) or sleep(60)) the monitor loop ends
C14_StopEndsLoop ==
    /\ [][~running => (pc' = "scan" => pc = "scan")]_vars
    /\ (pc \in InLoop /\ ~running) ~> (pc \in {"returned", "exited"})

\* the loop was left through its condition, by stop()
C14_Witness == pc = "returned" /\ ~running /\ exit_status = <<>>

\* the resolved value of the token or of the channel id is empty
Missing(env) == "empty" \in {getenv(env.token), getenv(env.channel)}

\* C15: with a token or a channel id that is missing, nothing is ever sent
\* or fetched, the loop is not entered, and the process ends with a status
\* that is not 0
C15_RefusesToStart ==
    (script = "final" /\ Missing(environ)) =>
        /\ pc \in {"main", "exited"}
        /\ ~running
        /\ since_request = NoTime
        /\ \A h \in Hashes : attempts[h] = 0 /\ alerted[h] = 0
        /\ coins = <<>> /\ results = <<>> /\ produced = <<>>
        /\ pc = "exited" => (Len(exit_status) = 1 /\ exit_status[1] # 0)

\* the process has ended for a channel id that is empty
C15_Witness ==
    /\ environ = [token |-> "unset", channel |-> "empty"]
    /\ pc = "exited"
    /\ exit_status = <<1>>

----------------------------------------------------------------------------
(* Properties of HyperliquidFuturesBot *)

\* C4: a trade the recent-trades fetch returns in several scan cycles is
\* given to send_liquidation_alert once.  (A token is polled once per cycle
\* and a hash names one trade of one token, so a second alert for a hash is
\* an alert of a later cycle.)
C4_OneAlertAcrossCycles ==
    script = "futures" => \A h \in Hashes : alerted[h] <= 1

\* the tasks of the batch that are inside send_message: the request is a
\* blocking call, so a task is seen there only in the sleep of the rate limit
InSendMessage == {j \in 1..Len(tasks) : tasks[j].state = "sm_wait"}

\* C6: at any time at most one task of the batch is inside send_message
C6_DispatchSerialized ==
    script = "futures" => Cardinality(InSendMessage) <= 1

\* C9: every scan cycle gets a symbol list that is not empty
C9_SomethingToPoll ==
    (script = "futures" /\ pc = "for_batch") => coins # <<>>

\* the names the meta requests of the latest get_recent_trades_all_tokens
\* brought
Fetched ==
    UNION { Names(get_all_tradable_assets(meta_log[j])) :
              j \in 1..Len(meta_log) }

C10_Step ==
    script = "futures" =>
        /\ all_tokens \subseteq all_tokens'
        /\ (pc = "scan" /\ pc' = "for_batch")
              => all_tokens' = all_tokens \cup Fetched'
        /\ ~(pc = "scan" /\ pc' = "for_batch")
              => all_tokens' = all_tokens

\* C10: all_tokens only grows: no step takes a name out of it, a call of
\* get_recent_trades_all_tokens leaves the union of the cache and the names
\* its requests brought (the cache itself when they failed), and nothing
\* else changes it
C10_CacheOnlyGrows == [][C10_Step]_vars

\* a refresh that succeeded brought fewer names than the cache holds
C10_Witness ==
    /\ script = "futures"
    /\ pc = "for_batch"
    /\ Len(meta_log) = 1
    /\ meta_log[1].status = "ok"
    /\ meta_log[1].universe # <<>>
    /\ Cardinality(all_tokens) > Len(meta_log[1].universe)

\* a call of get_recent_trades_all_tokens
GetTokensStep == script = "futures" /\ pc = "scan" /\ pc' = "for_batch"

\* C25: once a refresh has brought a symbol, get_recent_trades_all_tokens
\* makes no meta request until the hour is over; a refresh that fails or
\* brings nothing leaves the refresh due, and the call of the next cycle
\* makes the request again; only the passing of the hour makes it due
C25_Step ==
    /\ (script = "futures" /\ ~update_due) => all_tokens # {}
    /\ (GetTokensStep /\ ~update_due) => (meta_log' = <<>> /\ ~update_due')
    /\ (GetTokensStep /\ update_due) =>
          /\ meta_log' # <<>>
          /\ update_due' = (get_all_tradable_assets(meta_log'[1]) = <<>>)
    /\ (script = "futures" /\ ~GetTokensStep /\ update_due # update_due')
          => (update_due' /\ pc \in {"scan_pause", "error_pause"})

C25_HourlyRefresh == [][C25_Step]_vars

\* a cycle has made no meta request, after a refresh that brought symbols
C25_Witness ==
    /\ script = "futures"
    /\ pc = "for_batch"
    /\ ~update_due
    /\ meta_log = <<>>
    /\ all_tokens # {}

----------------------------------------------------------------------------
(* Properties of the two scanners of all symbols                           *)

\* the places of a scan cycle after its symbol list was obtained
InCycle ==
    {"for_batch", "gather", "for_liquidation", "rate_wait", "alert_pause",
     "batch_pause", "scan_pause"}

\* C21: in a cycle that no exception of the scan loop ends, the batches
\* start at the multiples of batch_size and hold at most batch_size symbols,
\* the symbols are requested in the order of the list, each position once,
\* and when the cycle ends the requests made are the list
C21_BatchesPartition ==
    pc \in InCycle =>
        /\ i % batch_size = 0
        /\ Len(Batch(coins, i)) <= batch_size
        /\ Len(fetched) <= Len(coins)
        /\ fetched = SubSeq(coins, 1, Len(fetched))
        /\ pc = "for_batch" => Len(fetched) = Min(i, Len(coins))
        /\ pc = "gather" => (k <= batch_size /\ Len(fetched) = i + k)
        /\ pc \in {"for_liquidation", "rate_wait", "alert_pause",
                    "batch_pause"}
              => Len(fetched) = Min(i + batch_size, Len(coins))
        /\ pc = "scan_pause" => fetched = coins

\* a cycle over a list of more than one batch has ended
C21_Witness ==
    /\ pc = "scan_pause"
    /\ Len(coins) > batch_size
    /\ fetched = coins

----------------------------------------------------------------------------
(* Properties of the rotating scanner                                       *)

\* the scan of the current batch is under way
InScan == {"for_coin", "send", "coin_pause", "scan_pause"}

\* C27: the batch of every scan of the rotating scanner is the slice of the
\* list that starts at ((n - 1) * batch_size) mod len(list), is not empty
\* and has at most batch_size symbols; and no symbol of the list is left
\* unrequested for more scans than the list has symbols
C27_NoStarvation ==
    script = "railway" =>
        /\ pc \in InScan =>
              /\ i = ((check_count - 1) * railway_batch_size)
                          % Len(coins_to_check)
              /\ Len(coins) \in 1..railway_batch_size
              /\ \A j \in 1..Len(coins) : coins[j] = coins_to_check[i + j]
        /\ \A j \in 1..Len(coins_to_check) :
              check_count - last_scan[j] <= Len(coins_to_check)
        /\ pc = "scan_pause" =>
              /\ fetched = coins
              /\ \A j \in 1..Len(coins_to_check) :
                    check_count - last_scan[j] < Len(coins_to_check)

\* a batch the end of the list cuts short has been scanned, in a scan by
\* which every symbol of the list has been requested more than once
C27_Witness ==
    /\ script = "railway"
    /\ pc = "scan_pause"
    /\ Len(coins) < railway_batch_size
    /\ check_count > 2 * Len(coins_to_check)
    /\ \A j \in 1..Len(coins_to_check) :
          last_scan[j] > Len(coins_to_check)

----------------------------------------------------------------------------
(* Properties of the three scripts together                                *)

\* C24: whichever of the three alert functions has made a message, its
\* direction is the one each of the three gives for that side
C24_SameDirection ==
    (/\ script = "calls"
     /\ call.op \in {"alert", "futures_alert", "railway_alert"}
     /\ call.stage = "dispatched") =>
        \A m \in 1..Len(call.sent) :
            LET side == call.liquidations[1].side
            IN  /\ call.sent[m].direction = direction(side)
                /\ call.sent[m].direction = FuturesDirection(side)
                /\ call.sent[m].direction = RailwayDirection(side)

====
